---- MODULE Spec2Model ----
(***************************************************************************)
(* Model of the EmPOWER runtime core:                                      *)
(*   - empower/core/module.py       Module, ModuleWorker, ModuleHandler    *)
(*   - empower/vbsp/vbspconnection.py  VBSPConnection                      *)
(* Everything runs on the single tornado IOLoop thread, so every handler   *)
(* is one atomic action.                                                   *)
(***************************************************************************)
EXTENDS Integers, Sequences, FiniteSets, TLC

(***************************************************************************)
(* Bounds of the model (not program constants).                            *)
(***************************************************************************)
\* add_module is not called any more once the id counter reached this value
MaxModuleId == 2
\* the timer of a module fires at most this many times
MaxTicks == 1

(***************************************************************************)
(* Program constants.                                                      *)
(***************************************************************************)
\* Module.__init__: self.__every = 5000
DEFAULT_EVERY == 5000
\* Module.start: every == -1 means "run once"
ONE_SHOT == -1
\* HTTP status codes used by ModuleHandler
HTTP_OK == 200
HTTP_CREATED == 201
HTTP_NO_CONTENT == 204
HTTP_BAD_REQUEST == 400
HTTP_NOT_FOUND == 404

(***************************************************************************)
(* Input domains.                                                          *)
(***************************************************************************)
\* tenant ids that requests may name; RUNTIME.tenants is a subset of these
TenantIds == {"t1", "t2"}
\* module_type strings a caller of add_module may pass
ModuleTypes == {"counters", "summary"}
\* MODULE_NAME of the worker, which the REST handler passes as module_type
MODULE_NAME == "counters"
\* values given for the 'every' field
EveryInputs == {-1, 0, 5000}
\* Module.REQUIRED
REQUIRED == {"module_type", "worker", "tenant_id"}
\* names that are attributes of a Module object (hasattr succeeds)
ModuleAttrs == {"module_id", "module_type", "worker", "tenant_id", "every",
                "callback"}

VARIABLES
    \* ---- ModuleWorker ----
    module_id,      \* ModuleWorker.__module_id
    modules,        \* ModuleWorker.modules: id -> stored Module
    objs,           \* every Module object that was given an id: its timer
                    \* (Module.__worker), the number of run_once calls, a
                    \* tick of the timer the IOLoop has queued, its callback
    tenants,        \* RUNTIME.tenants
    assigned,       \* history: ids of the modules stored, in creation order
    resp,           \* history: what the last operation was and what it did
    \* ---- VBSPConnection, per connection object ----
    now,            \* time.time(), in seconds
    endian,         \* sys.byteorder of the host
    stream,         \* state of self.stream
    conn_vbs,       \* self.vbs
    want,           \* size of the read_bytes() call that is pending
    wire,           \* bytes the peer has written and the stream not yet read
    expected,       \* history: bodies of the frames sent and not yet dispatched
    misframed,      \* history: a body was dispatched that is not the one sent
    \* ---- VBS (device), per entry of RUNTIME.vbses ----
    vbs_connection, \* vbs.connection
    vbs_period,     \* vbs.period
    vbs_last_seen,  \* vbs.last_seen
    vbs_last_seen_ts, \* vbs.last_seen_ts
    pt_types_handlers, \* server.pt_types_handlers: type -> handlers registered
    cres            \* history: the last connection event and what it did

wvars == <<module_id, modules, objs, tenants, assigned, resp>>
cvars == <<now, endian, stream, conn_vbs, want, wire, expected, misframed,
           vbs_connection, vbs_period, vbs_last_seen, vbs_last_seen_ts,
           pt_types_handlers, cres>>
vars == <<wvars, cvars>>

(***************************************************************************)
(* Module                                                                  *)
(***************************************************************************)
\* values handed to the callback setter: the type of the value and, for a
\* list, tuple or string its length, for a number the number
Value(type, n) == [type |-> type, n |-> n]

\* Module.__init__: self.__callback = None
NoCallback == Value("NoneType", 0)

CallbackInputs ==
    {NoCallback, Value("function", 0), Value("method", 0),
     Value("list", 0), Value("list", 1), Value("list", 2), Value("list", 3),
     Value("tuple", 2), Value("int", 0), Value("int", 7),
     Value("str", 0), Value("str", 4)}

\* Python's truth value of v, as "not callback" takes it
Falsy(v) ==
    \/ v.type = "NoneType"
    \/ v.type \in {"list", "tuple", "str", "int"} /\ v.n = 0

\* isinstance(callback, types.FunctionType) or
\* isinstance(callback, types.MethodType)
IsInvocable(v) == v.type \in {"function", "method"}

\* isinstance(callback, list) and len(callback) == 2
IsRemotePair(v) == v.type = "list" /\ v.n = 2

\* faulty variant: the setter without its else branch stores any value
CallbackSetterStoresAny(old, v) ==
    IF Falsy(v) THEN [exc |-> "none", callback |-> NoCallback]
    ELSE [exc |-> "none", callback |-> v]

\* Module.callback (setter): the exception raised and the callback stored
\* afterwards, old being the one stored before
CallbackSetter(old, v) ==
    IF Falsy(v) THEN [exc |-> "none", callback |-> NoCallback]
    ELSE IF IsInvocable(v) THEN [exc |-> "none", callback |-> v]
    ELSE IF IsRemotePair(v) THEN [exc |-> "none", callback |-> v]
    ELSE [exc |-> "TypeError", callback |-> old]

\* faulty variant: no __eq__: a candidate is never the stored object itself
ModuleEqIdentity(a, b) == FALSE

\* Module.__eq__: equal module_type, tenant_id and every; the id is ignored

ModuleEq(a, b) ==
    /\ a.module_type = b.module_type
    /\ a.tenant_id = b.tenant_id
    /\ a.every = b.every

\* tornado.ioloop.PeriodicCallback(callback, callback_time): the constructor
\* raises ValueError unless callback_time is positive
PeriodicCallbackNew(callback_time) ==
    IF callback_time <= 0 THEN "ValueError" ELSE "none"

\* faulty variant: start() without the every == -1 branch
StartAlwaysTimer(every) ==
    IF PeriodicCallbackNew(every) # "none"
    THEN [exc |-> PeriodicCallbackNew(every), timer |-> "none", runs |-> 0]
    ELSE [exc |-> "none", timer |-> "running", runs |-> 0]

\* faulty variant: start() that never builds the PeriodicCallback
StartNoTimer(every) ==
    [exc |-> "none", timer |-> "none",
     runs |-> IF every = ONE_SHOT THEN 1 ELSE 0]

\* Module.start: run_once() synchronously when every == -1, otherwise build
\* and start the PeriodicCallback.  Gives the exception raised (if any), the
\* state of Module.__worker afterwards and the number of run_once calls made.
Start(every) ==
    IF every = ONE_SHOT
    THEN [exc |-> "none", timer |-> "none", runs |-> 1]
    ELSE IF PeriodicCallbackNew(every) # "none"
         THEN [exc |-> PeriodicCallbackNew(every), timer |-> "none", runs |-> 0]
         ELSE [exc |-> "none", timer |-> "running", runs |-> 0]

\* Module.stop: self.__worker.stop(); __worker is None when no timer was
\* ever created, and then the attribute access raises AttributeError
Stop(obj) ==
    IF obj.timer = "none"
    THEN [exc |-> "AttributeError", timer |-> obj.timer]
    ELSE [exc |-> "none", timer |-> "stopped"]

(***************************************************************************)
(* ModuleWorker                                                            *)
(***************************************************************************)
\* faulty variant: the getter returns the counter without incrementing it
ModuleIdNoIncrement(ctr) == ctr

\* ModuleWorker.module_id (property getter): increments, then returns
ModuleIdGetter(ctr) == ctr + 1

\* the module object add_module builds from its keyword arguments
Candidate(kw) ==
    [module_type |-> kw.module_type,
     tenant_id |-> kw.tenant_id,
     every |-> IF "every" \in kw.keys THEN kw.every ELSE DEFAULT_EVERY]

\* faulty variant: add_module without the scan for an equal module
NoEquivalent(m) == {}

\* the stored modules equal to m, as the scan of self.modules.values() sees
Equivalent(m) == {i \in DOMAIN modules : ModuleEq(modules[i], m)}

\* the scan returns the first equal module in dict (insertion) order
FirstEquivalent(m) == CHOOSE i \in Equivalent(m) : \A j \in Equivalent(m) : i <= j

Raised(exc) ==
    [exc |-> exc, ret |-> 0, ctr |-> module_id, mods |-> modules,
     objs |-> objs, starts |-> 0, runs |-> 0, stored |-> FALSE]

\* faulty variant: add_module without the check of the tenant
TenantAlwaysKnown(kw) == TRUE

\* add_module: module.tenant_id not in RUNTIME.tenants raises KeyError
TenantKnown(kw) == kw.tenant_id \in tenants

\* ModuleWorker.add_module(**kwargs) in the current state: the exception it
\* raises or the id of the module it returns, and the worker's state after
AddModuleOutcome(kw) ==
    IF ~(REQUIRED \subseteq kw.keys) THEN Raised("ValueError")
    ELSE IF ~(kw.keys \subseteq ModuleAttrs) THEN Raised("ValueError")
    ELSE IF ~TenantKnown(kw) THEN Raised("KeyError")
    ELSE IF Equivalent(Candidate(kw)) # {}
    THEN [Raised("none") EXCEPT !.ret = FirstEquivalent(Candidate(kw))]
    ELSE LET id == ModuleIdGetter(module_id)
             m == Candidate(kw)
             st == Start(m.every)
             obj == [every |-> m.every, timer |-> st.timer, runs |-> st.runs,
                     due |-> FALSE, callback |-> NoCallback]
         IN  IF st.exc # "none"
             THEN [exc |-> st.exc, ret |-> 0, ctr |-> id, mods |-> modules,
                   objs |-> objs @@ (id :> obj), starts |-> 1,
                   runs |-> st.runs, stored |-> FALSE]
             ELSE [exc |-> "none", ret |-> id, ctr |-> id,
                   mods |-> modules @@ (id :> m),
                   objs |-> objs @@ (id :> obj), starts |-> 1,
                   runs |-> st.runs, stored |-> TRUE]

\* faulty variant: remove_module that deletes the entry without stop()
RemoveWithoutStop(id) ==
    IF id \notin DOMAIN modules
    THEN [exc |-> "none", mods |-> modules, objs |-> objs, stops |-> 0]
    ELSE [exc |-> "none",
          mods |-> [i \in DOMAIN modules \ {id} |-> modules[i]],
          objs |-> objs, stops |-> 0]

\* ModuleWorker.remove_module(module_id) in the current state
RemoveModuleOutcome(id) ==
    IF id \notin DOMAIN modules
    THEN [exc |-> "none", mods |-> modules, objs |-> objs, stops |-> 0]
    ELSE IF modules[id].every >= 0
    THEN LET sp == Stop(objs[id])
         IN  IF sp.exc # "none"
             THEN [exc |-> sp.exc, mods |-> modules, objs |-> objs,
                   stops |-> 1]
             ELSE [exc |-> "none",
                   mods |-> [i \in DOMAIN modules \ {id} |-> modules[i]],
                   objs |-> [objs EXCEPT ![id].timer = sp.timer],
                   stops |-> 1]
    ELSE [exc |-> "none",
          mods |-> [i \in DOMAIN modules \ {id} |-> modules[i]],
          objs |-> objs, stops |-> 0]

(***************************************************************************)
(* ModuleHandler (REST).  The handler object is a tornado RequestHandler:  *)
(* send_error() sets the status and finishes the response, set_status()    *)
(* only changes the status of a response that is still to be sent, and the *)
(* response is finished with the current status when the method returns.   *)
(***************************************************************************)
NewHandler == [status |-> HTTP_OK, finished |-> FALSE, sent |-> 0]

set_status(h, code) == [h EXCEPT !.status = code]

send_error(h, code) ==
    IF h.finished THEN h
    ELSE [status |-> code, finished |-> TRUE, sent |-> code]

finish(h) ==
    IF h.finished THEN h ELSE [h EXCEPT !.finished = TRUE, !.sent = h.status]

\* the except clauses of the handler methods
OnException(h, exc) ==
    IF exc = "KeyError" THEN send_error(h, HTTP_NOT_FOUND)
    ELSE IF exc = "ValueError" THEN send_error(h, HTTP_BAD_REQUEST)
    ELSE h

\* UUID(args[0]): a string that is no UUID raises ValueError
MalformedUuid == "not-a-uuid"

UrlTenants == TenantIds \cup {MalformedUuid}

\* the keyword arguments ModuleHandler.post passes to add_module
PostKwargs(tenant, body) ==
    [keys |-> (body.keys \ {"version"}) \cup REQUIRED,
     module_type |-> MODULE_NAME, tenant_id |-> tenant, every |-> body.every]

\* ModuleHandler.post: the exception of the try block and add_module's outcome
PostOutcome(tenant, body) ==
    IF tenant = MalformedUuid THEN Raised("ValueError")
    ELSE IF "version" \notin body.keys THEN Raised("ValueError")
    ELSE AddModuleOutcome(PostKwargs(tenant, body))

PostResponse(tenant, body) ==
    LET out == PostOutcome(tenant, body)
    IN  IF out.exc = "none"
        THEN finish(set_status(NewHandler, HTTP_CREATED))
        ELSE finish(OnException(NewHandler, out.exc))

\* ModuleHandler.delete: the exception of the try block and remove_module's
\* outcome
NoRemoval(exc) ==
    [exc |-> exc, mods |-> modules, objs |-> objs, stops |-> 0]

\* faulty variant: delete without the comparison of the module's tenant
DeleteAnyTenant(tenant, id) ==
    IF tenant = MalformedUuid THEN NoRemoval("ValueError")
    ELSE IF id \notin DOMAIN modules THEN NoRemoval("KeyError")
    ELSE RemoveModuleOutcome(id)

DeleteOutcome(tenant, id) ==
    IF tenant = MalformedUuid THEN NoRemoval("ValueError")
    ELSE IF id \notin DOMAIN modules THEN NoRemoval("KeyError")
    ELSE IF modules[id].tenant_id # tenant THEN NoRemoval("KeyError")
    ELSE RemoveModuleOutcome(id)

\* set_status(204) follows the try statement, whatever the except clauses did
DeleteResponse(tenant, id) ==
    LET out == DeleteOutcome(tenant, id)
    IN  finish(set_status(OnException(NewHandler, out.exc), HTTP_NO_CONTENT))

(***************************************************************************)
(* Inputs                                                                  *)
(***************************************************************************)
NoKey == [module_type |-> "", tenant_id |-> "", every |-> 0]

\* the (module_type, tenant_id, every) a request asks for, when its keyword
\* arguments are the required ones plus attributes of Module
RequestKey(kw) ==
    IF REQUIRED \subseteq kw.keys /\ kw.keys \subseteq ModuleAttrs
    THEN Candidate(kw) ELSE NoKey

\* keyword arguments of direct add_module calls
Kwargs ==
    {[keys |-> REQUIRED \cup {"every"}, module_type |-> mt, tenant_id |-> t,
      every |-> e] : mt \in ModuleTypes, t \in TenantIds, e \in EveryInputs}
    \cup
    {[keys |-> REQUIRED \ {"tenant_id"}, module_type |-> MODULE_NAME,
      tenant_id |-> "", every |-> DEFAULT_EVERY],
     [keys |-> REQUIRED \cup {"bogus"}, module_type |-> MODULE_NAME,
      tenant_id |-> "t1", every |-> DEFAULT_EVERY]}

\* JSON bodies of POST requests
Bodies ==
    {[keys |-> {"version", "every"}, every |-> e] : e \in EveryInputs}
    \cup
    {[keys |-> {"version"}, every |-> DEFAULT_EVERY],
     [keys |-> {"every"}, every |-> DEFAULT_EVERY],
     [keys |-> {"version", "bogus"}, every |-> DEFAULT_EVERY]}

ModuleIds == 1..MaxModuleId

EmptyMap == [i \in {} |-> 0]

Resp(op, key, id, out, h) ==
    [op |-> op, key |-> key, id |-> id, present |-> id \in DOMAIN modules,
     exc |-> out.exc, ret |-> out.ret,
     starts |-> out.starts, stops |-> out.stops, runs |-> out.runs,
     handled |-> out.handled, arg |-> out.arg, fail |-> out.fail,
     calls |-> out.calls, status |-> h.status, sent |-> h.sent]

NoOut ==
    [exc |-> "none", ret |-> 0, starts |-> 0, stops |-> 0, runs |-> 0,
     handled |-> {}, arg |-> NoCallback, fail |-> "none", calls |-> <<>>]

NoHttp == [status |-> 0, sent |-> 0]

(***************************************************************************)
(* Actions of the worker                                                   *)
(***************************************************************************)
WInit ==
    /\ module_id = 0
    /\ modules = EmptyMap
    /\ objs = EmptyMap
    /\ tenants = TenantIds
    /\ assigned = <<>>
    /\ resp = Resp("init", NoKey, 0, NoOut, NoHttp)

ApplyAdd(op, key, out, h) ==
    /\ out.ctr <= MaxModuleId
    /\ module_id' = out.ctr
    /\ modules' = out.mods
    /\ objs' = out.objs
    /\ assigned' = IF out.stored THEN Append(assigned, out.ret) ELSE assigned
    /\ resp' = Resp(op, key, 0, out @@ NoOut, h)
    /\ UNCHANGED <<tenants, cvars>>

ApplyRemove(op, key, id, out, h) ==
    /\ modules' = out.mods
    /\ objs' = out.objs
    /\ resp' = Resp(op, key, id, out @@ NoOut, h)
    /\ UNCHANGED <<module_id, tenants, assigned, cvars>>

\* a direct call of ModuleWorker.add_module
AddModule ==
    \E kw \in Kwargs : ApplyAdd("add_module", RequestKey(kw), AddModuleOutcome(kw), NoHttp)

\* a direct call of ModuleWorker.remove_module
RemoveModule ==
    \E id \in ModuleIds :
        ApplyRemove("remove_module", NoKey, id, RemoveModuleOutcome(id),
                    NoHttp)

\* POST /api/v1/tenants/<tenant>/<module>
Post ==
    \E t \in UrlTenants, b \in Bodies :
        ApplyAdd("post",
                 IF t = MalformedUuid \/ "version" \notin b.keys
                 THEN NoKey ELSE RequestKey(PostKwargs(t, b)),
                 PostOutcome(t, b), PostResponse(t, b))

\* DELETE /api/v1/tenants/<tenant>/<module>/<id>
Delete ==
    \E t \in UrlTenants, id \in ModuleIds :
        ApplyRemove("delete", [NoKey EXCEPT !.tenant_id = t], id,
                    DeleteOutcome(t, id), DeleteResponse(t, id))

\* the IOLoop runs the PeriodicCallback of a module: Module.run_once
TimerFire ==
    \E i \in DOMAIN objs :
        /\ objs[i].timer = "running"
        /\ ~objs[i].due
        /\ objs[i].runs - Start(objs[i].every).runs < MaxTicks
        /\ objs' = [objs EXCEPT ![i].runs = @ + 1]
        /\ resp' = Resp("run_once", NoKey, i, [NoOut EXCEPT !.runs = 1], NoHttp)
        /\ UNCHANGED <<module_id, modules, tenants, assigned, cvars>>

\* tenants that leave and rejoin the registry while the worker runs
VolatileTenants == {"t2"}

\* the tenant registry (RUNTIME.tenants) loses or gains a tenant
TenantChange ==
    \E t \in VolatileTenants :
        /\ tenants' = IF t \in tenants THEN tenants \ {t} ELSE tenants \cup {t}
        /\ resp' = Resp("tenants", NoKey, 0, NoOut, NoHttp)
        /\ UNCHANGED <<module_id, modules, objs, assigned, cvars>>

AddOps == {"add_module", "post"}

RemoveOps == {"remove_module", "delete"}

WNext == AddModule \/ RemoveModule \/ Post \/ Delete \/ TimerFire \/ TenantChange

(***************************************************************************)
(* The methods of Module and ModuleWorker that other components call, and  *)
(* the timer of a module seen as the IOLoop runs it: a tick is first       *)
(* queued and then run.                                                    *)
(***************************************************************************)
\* keyword arguments of the add_module calls of one tenant's component
ApiKwargs ==
    {[keys |-> REQUIRED \cup {"every"}, module_type |-> MODULE_NAME,
      tenant_id |-> "t1", every |-> e] : e \in EveryInputs}

\* handle_response is the hook of the concrete module type; the stub of
\* Module takes (module, response) and handle_packet passes (response), so
\* the call raises TypeError on a module type that keeps the stub
Hooks == {"overridden", "stub"}

HandleResponse(hook) == IF hook = "stub" THEN "TypeError" ELSE "none"

\* faulty variant: handle_packet without the test for an absent id
HandlePacketNoCheck(id, hook) ==
    IF id \notin DOMAIN modules
    THEN [exc |-> "KeyError", handled |-> {}]
    ELSE [exc |-> HandleResponse(hook), handled |-> {id}]

\* ModuleWorker.handle_packet(response): the exception raised and the
\* modules on which handle_response was called
HandlePacketOutcome(id, hook) ==
    IF id \notin DOMAIN modules
    THEN [exc |-> "none", handled |-> {}]
    ELSE [exc |-> HandleResponse(hook), handled |-> {id}]

\* PeriodicCallback._run: a queued tick calls the task (run_once) only
\* while the timer is running
PeriodicCallbackRun(obj) ==
    IF obj.timer = "running" THEN obj.runs + 1 ELSE obj.runs

\* what can go wrong in a delivery: serializable.to_dict(), json.dumps(),
\* the local callback, xmlrpc.client.ServerProxy(), the remote call
CallbackFailures == {"none", "to_dict", "dumps", "callback", "proxy", "rpc"}

\* the body of the try statement of handle_callback: the exception that
\* leaves it, and where the triggering object went.  A remote call runs on a
\* thread of the pool; what it raises stays in the pool's result object.
TryDelivery(cb, fail) ==
    IF fail = "to_dict" THEN [exc |-> "AttributeError", to |-> "nobody"]
    ELSE IF fail = "dumps" THEN [exc |-> "TypeError", to |-> "nobody"]
    ELSE IF IsInvocable(cb)
    THEN IF fail = "callback" THEN [exc |-> "RuntimeError", to |-> "local"]
         ELSE [exc |-> "none", to |-> "local"]
    ELSE IF IsRemotePair(cb)
    THEN IF fail = "proxy" THEN [exc |-> "OSError", to |-> "nobody"]
         ELSE [exc |-> "none", to |-> "pool"]
    ELSE [exc |-> "TypeError", to |-> "nobody"]

\* faulty variant: an except clause for TypeError only
CaughtTypeErrorOnly(exc) == exc = "TypeError"

\* except Exception as ex: every exception of the body is an Exception
Caught(exc) ==
    exc \in {"AttributeError", "TypeError", "RuntimeError", "OSError"}

\* handle_callback(serializable, module): the exception that reaches the
\* caller, and where the triggering object went
HandleCallbackOutcome(cb, fail) ==
    IF Falsy(cb) THEN [exc |-> "none", to |-> "nobody"]
    ELSE LET b == TryDelivery(cb, fail)
         IN  IF b.exc # "none" /\ Caught(b.exc)
             THEN [b EXCEPT !.exc = "none"]
             ELSE b

ApiStep(op, i, out) ==
    /\ resp' = Resp(op, NoKey, i, out, NoHttp)
    /\ UNCHANGED <<module_id, modules, tenants, assigned, cvars>>

CreateModule ==
    \E kw \in ApiKwargs :
        ApplyAdd("add_module", RequestKey(kw), AddModuleOutcome(kw), NoHttp)

\* add_module for a module with the default period
CreatePeriodic ==
    \E kw \in {k \in ApiKwargs : k.every = DEFAULT_EVERY} :
        ApplyAdd("add_module", RequestKey(kw), AddModuleOutcome(kw), NoHttp)

\* a direct call of Module.stop on a module object
ModuleStop ==
    \E i \in DOMAIN objs :
        /\ objs' = [objs EXCEPT ![i].timer = Stop(objs[i]).timer]
        /\ ApiStep("stop", i,
                   [NoOut EXCEPT !.exc = Stop(objs[i]).exc, !.stops = 1])

\* module.callback = v
SetCallback ==
    \E i \in DOMAIN objs, v \in CallbackInputs :
        /\ objs' = [objs EXCEPT
                        ![i].callback = CallbackSetter(@, v).callback]
        /\ ApiStep("set_callback", i,
                   [NoOut EXCEPT
                        !.exc = CallbackSetter(objs[i].callback, v).exc,
                        !.arg = v])

\* the dispatcher hands a response with an embedded module id to the worker
HandlePacket ==
    \E id \in ModuleIds, hook \in Hooks :
        /\ UNCHANGED objs
        /\ ApiStep("handle_packet", id,
                   [NoOut EXCEPT
                        !.exc = HandlePacketOutcome(id, hook).exc,
                        !.handled = HandlePacketOutcome(id, hook).handled])

\* ModuleEventWorker.handle_packet(event), for the modules with the ids in
\* ids still to come in the loop over self.modules.values() (a dict keeps
\* insertion order, which is the order of the ids): the modules on which
\* handle_response was called, in the order of the calls, and the exception
\* that ends the loop
RECURSIVE ForwardEvent(_, _)
ForwardEvent(ids, hook) ==
    IF ids = {} THEN [exc |-> "none", calls |-> <<>>]
    ELSE LET i == CHOOSE j \in ids : \A k \in ids : j <= k
             rest == ids \ {i}
         IN  IF modules[i].tenant_id \notin tenants
             THEN ForwardEvent(rest, hook)
             ELSE IF HandleResponse(hook) # "none"
             THEN [exc |-> HandleResponse(hook), calls |-> <<i>>]
             ELSE [exc |-> ForwardEvent(rest, hook).exc,
                   calls |-> <<i>> \o ForwardEvent(rest, hook).calls]

\* the dispatcher hands an event to the event worker
HandleEvent ==
    \E hook \in Hooks :
        /\ UNCHANGED objs
        /\ ApiStep("handle_event", 0,
                   [NoOut EXCEPT
                        !.exc = ForwardEvent(DOMAIN modules, hook).exc,
                        !.calls = ForwardEvent(DOMAIN modules, hook).calls])

\* a module's task hands a result to handle_callback
HandleCallback ==
    \E i \in DOMAIN objs, f \in CallbackFailures :
        /\ UNCHANGED objs
        /\ ApiStep("handle_callback", i,
                   [NoOut EXCEPT
                        !.exc = HandleCallbackOutcome(objs[i].callback, f).exc,
                        !.fail = f])

\* the IOLoop finds the timeout of a running timer due and queues its tick
TimerDue ==
    \E i \in DOMAIN objs :
        /\ objs[i].timer = "running"
        /\ ~objs[i].due
        /\ objs[i].runs - Start(objs[i].every).runs < MaxTicks
        /\ objs' = [objs EXCEPT ![i].due = TRUE]
        /\ ApiStep("due", i, NoOut)

\* the IOLoop runs a queued tick
TimerRun ==
    \E i \in DOMAIN objs :
        /\ objs[i].due
        /\ objs' = [objs EXCEPT ![i].due = FALSE,
                                ![i].runs = PeriodicCallbackRun(objs[i])]
        /\ ApiStep("tick", i,
                   [NoOut EXCEPT
                        !.runs = PeriodicCallbackRun(objs[i]) - objs[i].runs])


ApiNext ==
    \/ CreateModule
    \/ RemoveModule
    \/ ModuleStop
    \/ HandlePacket
    \/ TimerDue
    \/ TimerRun

CallbackNext ==
    \/ CreatePeriodic
    \/ RemoveModule
    \/ SetCallback
    \/ HandleCallback

EventNext ==
    \/ AddModule
    \/ RemoveModule
    \/ TenantChange
    \/ HandleEvent

(***************************************************************************)
(* Properties of the worker                                                *)
(***************************************************************************)
\* C1: when a request to add a module follows directly on a successful one
\* with the same (module_type, tenant_id, every), it returns the module the
\* first one returned, under the same id; it consumes no id, leaves the
\* module map and every timer as they were, and calls neither start() nor
\* run_once().
C1_IdempotentAdd ==
    [][(/\ resp.op \in AddOps /\ resp.exc = "none" /\ resp.key # NoKey
        /\ resp'.op \in AddOps /\ resp'.key = resp.key)
       => (/\ resp'.exc = "none"
           /\ resp'.ret = resp.ret
           /\ module_id' = module_id
           /\ modules' = modules
           /\ objs' = objs
           /\ resp'.starts = 0
           /\ resp'.runs = 0)]_vars

\* a second POST was answered 201 with the id of a module stored before it
C1_Witness ==
    /\ resp.op = "post"
    /\ resp.sent = HTTP_CREATED
    /\ resp.starts = 0
    /\ resp.ret \in DOMAIN modules

\* C2: the ids given to the modules that were stored are strictly increasing
\* in creation order (so none is given twice, removed or not), and none is
\* above the id counter.
C2_IdsStrictlyIncreasing ==
    /\ \A i, j \in DOMAIN assigned : i < j => assigned[i] < assigned[j]
    /\ \A i \in DOMAIN assigned : 1 <= assigned[i] /\ assigned[i] <= module_id
    /\ DOMAIN modules \subseteq {assigned[i] : i \in DOMAIN assigned}

\* a module was stored after an earlier one had been removed
C2_Witness ==
    /\ Len(assigned) = 2
    /\ assigned[1] \notin DOMAIN modules
    /\ assigned[2] \in DOMAIN modules

\* C5 (as claimed): a DELETE with a well-formed URL that names an id absent
\* from the module map is answered 204 and leaves the module map unchanged.
C5_DeleteAbsentIs204 ==
    (resp.op = "delete" /\ ~resp.present /\ resp.exc # "ValueError")
        => resp.sent = HTTP_NO_CONTENT

\* C6: a module with every = -1 has run its task exactly once from the moment
\* add_module returned it and never has a timer; the run is made by the
\* add_module call itself; and remove_module on it calls no stop() and takes
\* it out of the map.
C6_OneShotRunsOnce ==
    /\ \A i \in DOMAIN objs :
           objs[i].every = ONE_SHOT
               => objs[i].runs = 1 /\ objs[i].timer = "none"
    /\ (resp.op \in AddOps /\ resp.starts = 1 /\ resp.key.every = ONE_SHOT)
           => resp.runs = 1
    /\ (/\ resp.op \in RemoveOps /\ resp.present
        /\ resp.exc \notin {"KeyError", "ValueError"}
        /\ objs[resp.id].every = ONE_SHOT)
           => /\ resp.exc = "none"
              /\ resp.stops = 0
              /\ resp.id \notin DOMAIN modules

\* a one-shot module was removed
C6_Witness ==
    /\ resp.op = "remove_module"
    /\ resp.present
    /\ objs[resp.id].every = ONE_SHOT
    /\ objs[resp.id].runs = 1
    /\ resp.id \notin DOMAIN modules

\* C10: no two entries of the module map have the same module_type,
\* tenant_id and every.
C10_NoEquivalentModules ==
    \A i, j \in DOMAIN modules :
        (/\ modules[i].module_type = modules[j].module_type
         /\ modules[i].tenant_id = modules[j].tenant_id
         /\ modules[i].every = modules[j].every) => i = j

\* two modules that differ in the period only are both stored
C10_Witness ==
    \E i, j \in DOMAIN modules :
        /\ i # j
        /\ modules[i].module_type = modules[j].module_type
        /\ modules[i].tenant_id = modules[j].tenant_id
        /\ modules[i].every # modules[j].every

\* C11: a request to add a module whose fields are not valid (a required
\* field or the version is missing, a field is no attribute of the module, the
\* tenant in the URL is malformed) raises ValueError and a POST is answered
\* 400; one whose fields are valid and whose tenant is not in the registry
\* raises KeyError and a POST is answered 404; in both cases the module map,
\* the id counter and every module object are as before, and neither start()
\* nor run_once() is called.
C11_FailedValidationStoresNothing ==
    [][(/\ resp'.op \in AddOps
        /\ (resp'.key = NoKey \/ resp'.key.tenant_id \notin tenants))
       => (/\ resp'.exc = IF resp'.key = NoKey THEN "ValueError" ELSE "KeyError"
           /\ (resp'.op = "post") =>
                  resp'.sent = IF resp'.key = NoKey THEN HTTP_BAD_REQUEST
                               ELSE HTTP_NOT_FOUND
           /\ modules' = modules
           /\ module_id' = module_id
           /\ objs' = objs
           /\ resp'.starts = 0
           /\ resp'.runs = 0)]_vars

\* a POST for a tenant that left the registry was answered 404 while a
\* module of that tenant is stored
C11_Witness ==
    /\ resp.op = "post"
    /\ resp.sent = HTTP_NOT_FOUND
    /\ resp.key # NoKey
    /\ resp.key.tenant_id \notin tenants
    /\ \E i \in DOMAIN modules : modules[i].tenant_id = resp.key.tenant_id

\* C14 (as claimed): a call of stop() on a module object that has no timer
\* (a one-shot module, or a module whose start() created none) raises nothing.
C14_StopWithoutTimerIsNoOp ==
    (resp.op = "stop" /\ objs[resp.id].timer = "none") => resp.exc = "none"

\* the shapes a callback may have: a function, a method, a list of two
ValidCallbacks == {Value("function", 0), Value("method", 0), Value("list", 2)}

ClearingValues ==
    {Value("NoneType", 0), Value("list", 0), Value("tuple", 0),
     Value("str", 0), Value("int", 0)}

C16_HandlePacketByModuleId ==
    [][(resp'.op = "handle_packet")
       => (/\ resp'.handled = IF resp'.id \in DOMAIN modules
                              THEN {resp'.id} ELSE {}
           /\ (resp'.id \notin DOMAIN modules) => resp'.exc = "none"
           /\ modules' = modules
           /\ module_id' = module_id
           /\ objs' = objs)]_vars

\* a response for the id of a removed module arrived while another module
\* is stored
C16_Witness ==
    /\ resp.op = "handle_packet"
    /\ resp.id \in DOMAIN objs
    /\ resp.id \notin DOMAIN modules
    /\ DOMAIN modules # {}
    /\ resp.handled = {}
    /\ resp.exc = "none"

\* the modules that were stored and are not any more: the removed ones
Removed ==
    {assigned[k] : k \in DOMAIN assigned} \ DOMAIN modules

\* C19: remove_module on a stored module does not fail and takes its id out
\* of the module map; the id of a removed module stays out of the map; and
\* the task of a removed module with a period >= 0 is not run again, not
\* even by a tick that was queued before the removal.
C19_RemovedModuleNeverRuns ==
    [][/\ (resp'.op = "remove_module" /\ resp'.id \in DOMAIN modules)
          => resp'.exc = "none" /\ resp'.id \notin DOMAIN modules'
       /\ \A i \in Removed :
              /\ i \notin DOMAIN modules'
              /\ objs[i].every >= 0 => objs'[i].runs = objs[i].runs]_vars

\* a tick of a periodic module that was queued before the module was removed
\* came up after the removal and did not run the task
C19_Witness ==
    /\ resp.op = "tick"
    /\ resp.id \in Removed
    /\ objs[resp.id].every >= 0
    /\ objs[resp.id].timer = "stopped"
    /\ resp.runs = 0
    /\ objs[resp.id].runs = 0

\* C20: handle_callback raises nothing, whatever the callback of the module
\* is (none, a function or method, a remote pair) and whatever fails in the
\* delivery (the serialization, the local callback, the set-up of the remote
\* call, the remote call); and it leaves the module map, the id counter and
\* every module object with its timer as they were.
C20_CallbackFailuresContained ==
    [][(resp'.op = "handle_callback")
       => (/\ resp'.exc = "none"
           /\ modules' = modules
           /\ module_id' = module_id
           /\ objs' = objs)]_vars

\* the local callback of a stored module with a running timer raised
C20_Witness ==
    /\ resp.op = "handle_callback"
    /\ resp.fail = "callback"
    /\ resp.id \in DOMAIN modules
    /\ objs[resp.id].callback = Value("function", 0)
    /\ objs[resp.id].timer = "running"
    /\ resp.exc = "none"

\* the stored modules whose tenant is in the tenant registry
Eligible == {i \in DOMAIN modules : modules[i].tenant_id \in tenants}

\* C21 (as claimed): the event worker's handle_packet calls handle_response
\* once on every stored module whose tenant is in the tenant registry and on
\* no other module, and leaves the module map and the id counter as they
\* were.
C21_EventToEveryEligibleModule ==
    [][(resp'.op = "handle_event")
       => (/\ {resp'.calls[k] : k \in DOMAIN resp'.calls} = Eligible
           /\ Len(resp'.calls) = Cardinality(Eligible)
           /\ modules' = modules
           /\ module_id' = module_id)]_vars

\* C23: every stored module whose period is not -1 has a running timer and
\* every stored one-shot module has no timer; hence the stop() call that
\* remove_module makes (for a period >= 0) never meets a missing timer.
C23_StoredModulesTimers ==
    /\ \A i \in DOMAIN modules :
          /\ objs[i].every = modules[i].every
          /\ modules[i].every # ONE_SHOT => objs[i].timer = "running"
          /\ modules[i].every = ONE_SHOT => objs[i].timer = "none"
    /\ (resp.op \in RemoveOps /\ resp.stops = 1) => resp.exc = "none"

\* a periodic module was removed and its timer stopped while a one-shot
\* module is stored
C23_Witness ==
    /\ resp.op = "remove_module"
    /\ resp.present
    /\ resp.stops = 1
    /\ resp.exc = "none"
    /\ objs[resp.id].timer = "stopped"
    /\ \E i \in DOMAIN modules : modules[i].every = ONE_SHOT

\* C24: a DELETE that names a stored module under a tenant (a well-formed
\* id) other than the module's tenant removes nothing: the module map is as
\* before and so is every timer, no stop() is called.
C24_DeleteUnderOtherTenant ==
    [][(/\ resp'.op = "delete"
        /\ resp'.id \in DOMAIN modules
        /\ resp'.key.tenant_id \in TenantIds
        /\ modules[resp'.id].tenant_id # resp'.key.tenant_id)
       => (/\ modules' = modules
           /\ objs' = objs
           /\ resp'.stops = 0)]_vars

\* a DELETE under another tenant was handled and the periodic module it
\* names is stored with its timer running
C24_Witness ==
    /\ resp.op = "delete"
    /\ resp.present
    /\ resp.key.tenant_id \in TenantIds
    /\ resp.id \in DOMAIN modules
    /\ modules[resp.id].tenant_id # resp.key.tenant_id
    /\ modules[resp.id].every # ONE_SHOT
    /\ objs[resp.id].timer = "running"

(***************************************************************************)
(* VBSPConnection: constants and inputs                                    *)
(***************************************************************************)
\* _handle_hello: vbs.period = 5000 (milliseconds)
DEFAULT_PERIOD == 5000
\* _heartbeat_cb: timeout = (self.vbs.period / 1000) * 3
HB_PERIODS == 3
\* _wait: self.stream.read_bytes(4, self._on_read)
LENGTH_BYTES == 4

\* the clock advances at most this many polling periods
MaxPeriods == 4

\* connection objects (one per accepted socket)
Conns == {"c1", "c2"}
NoConn == "none"
\* device ids that are keys of RUNTIME.vbses, and one that is not
Vbses == {1, 2}
UnknownVbs == 3
NoVbs == 0
Endians == {"little", "big"}

(***************************************************************************)
(* Framing                                                                 *)
(***************************************************************************)
\* int.to_bytes(4, byteorder) and int.from_bytes(bytes, byteorder)
ToBytes(x, byteorder) ==
    LET be == <<(x \div 16777216) % 256, (x \div 65536) % 256,
                (x \div 256) % 256, x % 256>>
    IN  IF byteorder = "big" THEN be
        ELSE <<be[4], be[3], be[2], be[1]>>

FromBytes(b, byteorder) ==
    IF byteorder = "big"
    THEN b[1] * 16777216 + b[2] * 65536 + b[3] * 256 + b[4]
    ELSE b[4] * 16777216 + b[3] * 65536 + b[2] * 256 + b[1]

\* socket.htonl / socket.ntohl: swap the four bytes on a little-endian host
Htonl(x, byteorder) ==
    IF byteorder = "big" THEN x ELSE FromBytes(ToBytes(x, "little"), "big")

Ntohl(x, byteorder) == Htonl(x, byteorder)

\* stream_send: the length prefix written before the serialized message
SizeBytes(size, byteorder) == ToBytes(Htonl(size, byteorder), byteorder)

\* the frame of a message body on the wire
Frame(body, byteorder) == SizeBytes(Len(body), byteorder) \o body

\* _on_read, len(line) == 4: the size passed to the next read_bytes
DecodeLength(line, byteorder) == Ntohl(FromBytes(line, byteorder), byteorder)

(***************************************************************************)
(* Messages.  A serialized emage_msg is modelled by the bytes              *)
(*   <<oneof tag, head.b_id, head.seq, ...>>;                              *)
(* fields whose bytes are missing have the default value 0.                *)
(***************************************************************************)
TAG_HELLO == 1
TAG_STATS == 2
TAG_OTHER == 3

\* emage_msg.WhichOneof("message"): "" stands for None (no field set)
WhichOneof(tag) ==
    IF tag = TAG_HELLO THEN "mHello"
    ELSE IF tag = TAG_STATS THEN "mStats"
    ELSE IF tag = TAG_OTHER THEN "mOther"
    ELSE ""

\* deserialize_message: None for empty data, else the parsed message
Deserialize(line) ==
    IF line = <<>>
    THEN [none |-> TRUE, type |-> "", b_id |-> 0, seq |-> 0]
    ELSE [none |-> FALSE, type |-> WhichOneof(line[1]),
          b_id |-> IF Len(line) >= 2 THEN line[2] ELSE 0,
          seq |-> IF Len(line) >= 3 THEN line[3] ELSE 0]

\* server.pt_types: message type -> suffix of the built-in handler's name
PT_TYPES == ("mHello" :> "hello") @@ ("mStats" :> "stats")

\* the _handle_* methods VBSPConnection defines
BuiltinHandlers == {"hello"}

HelloBody(d) == <<TAG_HELLO, d, 1>>

\* bodies a device sends on a connection
HelloBodies == {HelloBody(d) : d \in Vbses \cup {UnknownVbs}}

ConnBodies == HelloBodies \cup {<<>>}

FrameBodies ==
    ConnBodies \cup {<<TAG_OTHER>>, <<TAG_STATS>>, <<0, 0, 0, 3>>,
                     <<TAG_HELLO, 1, 1, 0>>}

(***************************************************************************)
(* VBSPConnection: handlers                                                *)
(***************************************************************************)
Closed(c) == stream[c] = "closed"

\* the device state a handler leaves behind, what it sent, what it raised
Unchanged(exc) ==
    [vbs |-> conn_vbs, conn |-> vbs_connection, period |-> vbs_period,
     seen |-> vbs_last_seen, ts |-> vbs_last_seen_ts, sent |-> <<>>,
     called |-> <<>>, exc |-> exc]

\* faulty variant: the except clause without its return: vbs is unbound below
UnknownVbsFaults(c) == Unchanged("NameError")

\* _handle_hello, except KeyError: log and return
UnknownVbsOutcome(c) == Unchanged("none")

\* faulty variant: _handle_hello without the test of vbs.connection
AlwaysNewConnection(d) == TRUE

\* _handle_hello, "if not vbs.connection": the device has no connection
IsNewConnection(d) == vbs_connection[d] = NoConn

\* _handle_hello(main_msg) on connection c
HandleHello(c, msg) ==
    LET d == msg.b_id
    IN  IF d \notin Vbses THEN UnknownVbsOutcome(c)
        ELSE IF IsNewConnection(d)
        THEN [vbs |-> [conn_vbs EXCEPT ![c] = d],
              conn |-> [vbs_connection EXCEPT ![d] = c],
              period |-> [vbs_period EXCEPT ![d] = DEFAULT_PERIOD],
              seen |-> [vbs_last_seen EXCEPT ![d] = msg.seq],
              ts |-> [vbs_last_seen_ts EXCEPT ![d] = now],
              sent |-> <<"ENB_CONF_REQUEST", "UE_CONF_REQUEST">>,
              called |-> <<>>, exc |-> "none"]
        ELSE [Unchanged("none") EXCEPT
                  !.seen = [vbs_last_seen EXCEPT ![d] = msg.seq],
                  !.ts = [vbs_last_seen_ts EXCEPT ![d] = now]]

\* the handlers other components register with the server; what a handler
\* does is its component's business, here it returns or it raises
ExtHandlers == {"w1", "w2"}

BUILTIN == "_handle_"

\* the handlers registered for any type
Registered ==
    UNION {{pt_types_handlers[t][k] : k \in DOMAIN pt_types_handlers[t]} :
               t \in DOMAIN pt_types_handlers}

\* for handler in self.server.pt_types_handlers[msg_type]: handler(msg),
\* where the handlers in failing raise: the handlers called, and the
\* exception that ends the loop
RECURSIVE RunHandlers(_, _)
RunHandlers(hs, failing) ==
    IF hs = <<>> THEN [called |-> <<>>, exc |-> "none"]
    ELSE IF Head(hs) \in failing
    THEN [called |-> <<Head(hs)>>, exc |-> "HandlerError"]
    ELSE LET r == RunHandlers(Tail(hs), failing)
         IN  [called |-> <<Head(hs)>> \o r.called, exc |-> r.exc]

\* _trigger_message(deserialized_msg) on connection c, when the registered
\* handlers in failing raise
TriggerMessage(c, msg, failing) ==
    IF msg.none THEN Unchanged("AttributeError")
    ELSE IF msg.type = "" \/ msg.type \notin DOMAIN PT_TYPES
    THEN Unchanged("none")
    ELSE LET own == IF PT_TYPES[msg.type] = "hello"
                       /\ "hello" \in BuiltinHandlers
                    THEN [HandleHello(c, msg) EXCEPT !.called = <<BUILTIN>>]
                    ELSE Unchanged("none")
             run == RunHandlers(pt_types_handlers[msg.type], failing)
         IN  IF own.exc # "none" THEN own
             ELSE [own EXCEPT !.called = @ \o run.called, !.exc = run.exc]

\* _on_disconnect on connection c, applied to the device state dev
OnDisconnect(c, dev) ==
    IF dev.vbs[c] = NoVbs THEN dev
    ELSE [dev EXCEPT !.seen[dev.vbs[c]] = 0,
                     !.conn[dev.vbs[c]] = NoConn]

\* _heartbeat_cb: timeout = (self.vbs.period / 1000) * 3, in seconds
TimeoutSeconds(period) == (period \div 1000) * HB_PERIODS

\* faulty variant: the comparison with <= in place of <
ExpiredAtEquality(last_seen_ts, period, t) ==
    last_seen_ts + TimeoutSeconds(period) <= t

\* _heartbeat_cb: (last_seen_ts + timeout) < time.time()
Expired(last_seen_ts, period, t) ==
    last_seen_ts + TimeoutSeconds(period) < t

Event(ev, c, line, out, closed) ==
    [ev |-> ev, c |-> c, line |-> line, sent |-> out.sent, exc |-> out.exc,
     called |-> out.called, closed |-> closed, checked |-> FALSE, age |-> 0, period |-> 0]

\* the steps that run no handler of interest leave no event behind
NoEvent == Event("none", NoConn, <<>>, Unchanged("none"), FALSE)

SetDevices(dev) ==
    /\ conn_vbs' = dev.vbs
    /\ vbs_connection' = dev.conn
    /\ vbs_period' = dev.period
    /\ vbs_last_seen' = dev.seen
    /\ vbs_last_seen_ts' = dev.ts

\* the stream of c closes: the close callback (_on_disconnect) runs and the
\* bytes not yet read are dropped
CloseStream(c, dev) ==
    /\ stream' = [stream EXCEPT ![c] = "closed"]
    /\ wire' = [wire EXCEPT ![c] = <<>>]
    /\ expected' = [expected EXCEPT ![c] = <<>>]
    /\ SetDevices(OnDisconnect(c, dev))

CInit ==
    /\ now = 0
    /\ endian \in Endians
    /\ stream = [c \in Conns |-> "none"]
    /\ conn_vbs = [c \in Conns |-> NoVbs]
    /\ want = [c \in Conns |-> 0]
    /\ wire = [c \in Conns |-> <<>>]
    /\ expected = [c \in Conns |-> <<>>]
    /\ misframed = [c \in Conns |-> FALSE]
    /\ vbs_connection = [d \in Vbses |-> NoConn]
    /\ vbs_period = [d \in Vbses |-> 0]
    /\ vbs_last_seen = [d \in Vbses |-> 0]
    /\ vbs_last_seen_ts = [d \in Vbses |-> 0]
    /\ pt_types_handlers = [t \in DOMAIN PT_TYPES |-> <<>>]
    /\ cres = NoEvent

\* VBSPConnection.__init__: the server accepted a socket
Accept(c) ==
    /\ stream[c] = "none"
    /\ stream' = [stream EXCEPT ![c] = "open"]
    /\ want' = [want EXCEPT ![c] = LENGTH_BYTES]
    /\ cres' = NoEvent
    /\ UNCHANGED <<now, endian, pt_types_handlers, conn_vbs, wire, expected, misframed,
                   vbs_connection, vbs_period, vbs_last_seen,
                   vbs_last_seen_ts, wvars>>

\* the device writes the frame of one message body to its socket
PeerSend(c, body) ==
    /\ stream[c] = "open"
    /\ wire[c] = <<>>
    /\ \E e \in Endians : wire' = [wire EXCEPT ![c] = Frame(body, e)]
    /\ expected' = [expected EXCEPT ![c] = Append(@, body)]
    /\ cres' = NoEvent
    /\ UNCHANGED <<now, endian, pt_types_handlers, stream, conn_vbs, want, misframed,
                   vbs_connection, vbs_period, vbs_last_seen,
                   vbs_last_seen_ts, wvars>>

\* _on_read(line): the pending read_bytes(want) completes; the handlers in
\* failing raise when they are called
OnReadWith(c, failing) ==
    /\ stream[c] = "open"
    /\ Len(wire[c]) >= want[c]
    /\ LET line == SubSeq(wire[c], 1, want[c])
           rest == SubSeq(wire[c], want[c] + 1, Len(wire[c]))
           out == TriggerMessage(c, Deserialize(line), failing)
       IN  IF Len(line) = 4
           THEN /\ want' = [want EXCEPT ![c] = DecodeLength(line, endian)]
                /\ wire' = [wire EXCEPT ![c] = rest]
                /\ cres' = NoEvent
                /\ UNCHANGED <<stream, conn_vbs, expected, misframed,
                               vbs_connection, vbs_period, vbs_last_seen,
                               vbs_last_seen_ts>>
           ELSE /\ misframed' =
                       [misframed EXCEPT ![c] =
                            @ \/ expected[c] = <<>> \/ Head(expected[c]) # line]
                /\ cres' = Event("dispatch", c, line, out, out.exc # "none")
                /\ IF out.exc # "none"
                   THEN /\ CloseStream(c, out)
                        /\ UNCHANGED want
                   ELSE /\ want' = [want EXCEPT ![c] = LENGTH_BYTES]
                        /\ wire' = [wire EXCEPT ![c] = rest]
                        /\ expected' =
                               [expected EXCEPT ![c] =
                                    IF @ = <<>> THEN @ ELSE Tail(@)]
                        /\ SetDevices(out)
                        /\ UNCHANGED stream
    /\ UNCHANGED <<now, endian, pt_types_handlers, wvars>>

OnRead(c) == \E failing \in SUBSET Registered : OnReadWith(c, failing)

\* server.register_message(type, parser, handler): a component registers a
\* handler for a message type; handlers are kept in registration order
RegisterMessage(t, h) ==
    /\ h \notin Registered
    /\ pt_types_handlers' = [pt_types_handlers EXCEPT ![t] = Append(@, h)]
    /\ cres' = NoEvent
    /\ UNCHANGED <<now, endian, stream, conn_vbs, want, wire, expected,
                   misframed, vbs_connection, vbs_period, vbs_last_seen,
                   vbs_last_seen_ts, wvars>>

\* _heartbeat_cb: the PeriodicCallback of connection c fires
Heartbeat(c) ==
    /\ stream[c] # "none"
    /\ LET d == conn_vbs[c]
           checks == d # NoVbs /\ ~Closed(c)
           closes == checks /\ Expired(vbs_last_seen_ts[d], vbs_period[d], now)
       IN  /\ cres' = [Event("heartbeat", c, <<>>, Unchanged("none"), closes)
                          EXCEPT !.checked = checks,
                                 !.age = IF checks
                                         THEN now - vbs_last_seen_ts[d] ELSE 0,
                                 !.period = IF checks THEN vbs_period[d] ELSE 0]
           /\ IF closes
              THEN CloseStream(c, Unchanged("none"))
              ELSE UNCHANGED <<stream, wire, expected, conn_vbs,
                               vbs_connection, vbs_period, vbs_last_seen,
                               vbs_last_seen_ts>>
    /\ UNCHANGED <<now, endian, pt_types_handlers, want, misframed, wvars>>

\* the device closes its socket
PeerClose(c) ==
    /\ stream[c] = "open"
    /\ CloseStream(c, Unchanged("none"))
    /\ cres' = Event("close", c, <<>>, Unchanged("none"), TRUE)
    /\ UNCHANGED <<now, endian, pt_types_handlers, want, misframed, wvars>>

\* time passes: one polling period of a device
Tick ==
    /\ now < MaxPeriods * (DEFAULT_PERIOD \div 1000)
    /\ now' = now + DEFAULT_PERIOD \div 1000
    /\ cres' = NoEvent
    /\ UNCHANGED <<endian, pt_types_handlers, stream, conn_vbs, want, wire,
                   expected, misframed,
                   vbs_connection, vbs_period, vbs_last_seen,
                   vbs_last_seen_ts, wvars>>

\* time passes without end: one polling period. _heartbeat_cb reads the
\* clock only to compare it with last_seen_ts, so the passage of time is
\* kept as the age of every timestamp, and an age above MaxPeriods periods
\* (above every timeout) is kept as MaxPeriods periods
TimePasses ==
    /\ vbs_last_seen_ts' =
           [d \in Vbses |->
               IF now - vbs_last_seen_ts[d] < MaxPeriods * (DEFAULT_PERIOD \div 1000)
               THEN vbs_last_seen_ts[d] - DEFAULT_PERIOD \div 1000
               ELSE vbs_last_seen_ts[d]]
    /\ cres' = NoEvent
    /\ UNCHANGED <<now, endian, pt_types_handlers, stream, conn_vbs, want,
                   wire, expected, misframed, vbs_connection, vbs_period,
                   vbs_last_seen, wvars>>

(***************************************************************************)
(* Specifications                                                          *)
(***************************************************************************)
Init == WInit /\ CInit

\* the host the runtime usually runs on: sys.byteorder is "little"
InitLittle == Init /\ endian = "little"

\* the module worker and its REST handler
Spec == InitLittle /\ [][WNext]_vars

\* the connections of the devices, their heartbeats and the clock
ConnNext ==
    \/ \E c \in Conns : Accept(c)
    \/ \E c \in Conns, b \in ConnBodies : PeerSend(c, b)
    \/ \E c \in Conns : OnRead(c)
    \/ \E c \in Conns : Heartbeat(c)
    \/ \E c \in Conns : PeerClose(c)
    \/ Tick

\* one worker, the calls other components make on it and on its modules
SpecApi == InitLittle /\ [][ApiNext]_vars

\* an event worker, its modules, the tenant registry and the events
SpecEvent == InitLittle /\ [][EventNext]_vars

\* the callbacks of the modules of one worker and their delivery
SpecCallback == InitLittle /\ [][CallbackNext]_vars

SpecConn == InitLittle /\ [][ConnNext]_vars

\* one connection and every kind of frame, the clock standing still
FramingNext ==
    \/ Accept("c1")
    \/ \E b \in FrameBodies : PeerSend("c1", b)
    \/ OnRead("c1")
    \/ PeerClose("c1")

SpecFraming == Init /\ [][FramingNext]_vars

\* bodies of every kind of message the dispatcher tells apart
DispatchBodies ==
    {HelloBody(1), HelloBody(UnknownVbs), <<TAG_STATS>>, <<TAG_OTHER>>, <<>>}

\* one connection, the handlers of other components and their failures
DispatchNext ==
    \/ \E t \in DOMAIN PT_TYPES, h \in ExtHandlers : RegisterMessage(t, h)
    \/ Accept("c1")
    \/ \E b \in DispatchBodies : PeerSend("c1", b)
    \/ OnRead("c1")
    \/ PeerClose("c1")

SpecDispatch == InitLittle /\ [][DispatchNext]_vars

\* two connections and the HELLOs of one device, time passing without end.
\* The IOLoop runs the heartbeat PeriodicCallback of every connection again
\* and again, completes every read whose bytes have arrived, and the clock
\* goes on.
LiveNext ==
    \/ \E c \in Conns : Accept(c)
    \/ \E c \in Conns : PeerSend(c, HelloBody(1))
    \/ \E c \in Conns : OnRead(c)
    \/ \E c \in Conns : Heartbeat(c)
    \/ \E c \in Conns : PeerClose(c)
    \/ TimePasses

SpecLive ==
    /\ InitLittle
    /\ [][LiveNext]_vars
    /\ \A c \in Conns : WF_vars(Heartbeat(c)) /\ WF_vars(OnRead(c))
    /\ WF_vars(TimePasses)

C4_FramingRoundTrip ==
    \A c \in Conns :
        /\ ~misframed[c]
        /\ (stream[c] = "open" /\ want[c] # LENGTH_BYTES)
               => expected[c] # <<>> /\ want[c] = Len(Head(expected[c]))
        /\ (cres.ev = "dispatch" /\ cres.c = c) => cres.exc = "none"
        /\ (stream[c] = "open" /\ want[c] = LENGTH_BYTES /\ wire[c] = <<>>)
               => expected[c] = <<>>

\* C7 (as claimed): for every open connection c and device d, d's connection
\* reference is c if and only if c's bound device is d.
C7_MutualBinding ==
    \A c \in Conns, d \in Vbses :
        stream[c] = "open" => (vbs_connection[d] = c <=> conn_vbs[c] = d)

\* C8 (as claimed): no device's connection reference refers to a connection
\* whose stream is closed.
C8_NoReferenceToClosed ==
    \A c \in Conns, d \in Vbses :
        stream[c] = "closed" => vbs_connection[d] # c

\* C9: the dispatch of a HELLO whose device id is no key of RUNTIME.vbses
\* changes no connection's bound device and no device's connection
\* reference, sends nothing, raises nothing and leaves the stream open.
C9_UnknownHelloIgnored ==
    [][(/\ cres'.ev = "dispatch"
        /\ Deserialize(cres'.line).type = "mHello"
        /\ Deserialize(cres'.line).b_id \notin Vbses)
       => (/\ conn_vbs' = conn_vbs
           /\ vbs_connection' = vbs_connection
           /\ cres'.sent = <<>>
           /\ cres'.exc = "none"
           /\ ~cres'.closed
           /\ stream' = stream
           /\ stream'[cres'.c] = "open"
           /\ want'[cres'.c] = LENGTH_BYTES)]_vars

\* a HELLO of the unknown device was dispatched on a connection that has
\* no device
C9_Witness ==
    /\ cres.ev = "dispatch"
    /\ cres.line = HelloBody(UnknownVbs)
    /\ conn_vbs[cres.c] = NoVbs
    /\ stream[cres.c] = "open"

\* the handlers the dispatcher is to call for a message of type t, in
\* dispatch order: the connection's own handler, then the registered ones
DispatchOrder(t) ==
    IF t \notin DOMAIN PT_TYPES THEN <<>>
    ELSE (IF PT_TYPES[t] \in BuiltinHandlers THEN <<BUILTIN>> ELSE <<>>)
             \o pt_types_handlers[t]

Called(h) == \E k \in DOMAIN cres.called : cres.called[k] = h

\* C12 (as claimed): when a handler called for a message raises, every
\* handler after it in the dispatch order of that message is called too.
C12_HandlersFailureIsolated ==
    (cres.ev = "dispatch" /\ cres.exc = "HandlerError")
        => \A k \in DOMAIN DispatchOrder(Deserialize(cres.line).type) :
               Called(DispatchOrder(Deserialize(cres.line).type)[k])

\* C13 (as claimed): the handlers called for a message are the connection's
\* own handler for its type (when it has one) followed by the handlers
\* registered for the type, each once and in registration order; for a type
\* that is not recognized, and for a message without a type, none is called.
C13_DispatchOrder ==
    (cres.ev = "dispatch")
        => cres.called = DispatchOrder(Deserialize(cres.line).type)

\* C17: the dispatch on connection c of a HELLO of a registered device d
\* sets d's last-seen sequence number to the one of the message and d's
\* last-seen timestamp to the time of the dispatch.  When d had no connection
\* it makes d the device of c and c the connection of d, sends the eNB and
\* then the UE configuration request and nothing else, and sets d's period to
\* 5000.  When d had a connection it sends nothing and changes no connection's
\* device, no device's connection and no period.  (When a handler called
\* after _handle_hello raises, the stream is closed and the disconnection
\* resets d's connection and sequence number.)
C17_HelloBindsOnce ==
    [][(/\ cres'.ev = "dispatch"
        /\ Deserialize(cres'.line).type = "mHello"
        /\ Deserialize(cres'.line).b_id \in Vbses)
       => LET d == Deserialize(cres'.line).b_id
              c == cres'.c
          IN  /\ vbs_last_seen_ts'[d] = now
              /\ ~cres'.closed => vbs_last_seen'[d] = Deserialize(cres'.line).seq
              /\ IF vbs_connection[d] = NoConn
                 THEN /\ conn_vbs'[c] = d
                      /\ ~cres'.closed => vbs_connection'[d] = c
                      /\ cres'.closed => vbs_connection'[d] = NoConn
                      /\ cres'.sent = <<"ENB_CONF_REQUEST", "UE_CONF_REQUEST">>
                      /\ vbs_period'[d] = DEFAULT_PERIOD
                      /\ \A e \in Vbses \ {d} :
                             vbs_connection'[e] = vbs_connection[e]
                      /\ \A b \in Conns \ {c} : conn_vbs'[b] = conn_vbs[b]
                 ELSE /\ cres'.sent = <<>>
                      /\ conn_vbs' = conn_vbs
                      /\ ~cres'.closed => vbs_connection' = vbs_connection
                      /\ vbs_period' = vbs_period]_vars

\* some time after the start a first HELLO bound a device to the connection
\* it came on, while the other device is bound to the other connection
C17_Witness ==
    /\ cres.ev = "dispatch"
    /\ cres.sent = <<"ENB_CONF_REQUEST", "UE_CONF_REQUEST">>
    /\ now > 0
    /\ \E d \in Vbses :
           /\ cres.line = HelloBody(d)
           /\ vbs_connection[d] = cres.c
           /\ conn_vbs[cres.c] = d
           /\ vbs_period[d] = DEFAULT_PERIOD
           /\ vbs_last_seen_ts[d] = now
           /\ \E e \in Vbses \ {d} :
                  vbs_connection[e] \notin {NoConn, cres.c}

\* C18 (as claimed): after the dispatch of a message body the stream is open
\* and the pending read is the read of a 4-byte length; and when every byte
\* sent was read while a body is still to be dispatched, the pending read is
\* the read of that body (no body is taken for something else), so that the
\* messages sent later are read and dispatched.
C18_BackToAwaitingLength ==
    \A c \in Conns :
        /\ (cres.ev = "dispatch" /\ cres.c = c)
               => stream[c] = "open" /\ want[c] = LENGTH_BYTES
        /\ (stream[c] = "open" /\ wire[c] = <<>> /\ expected[c] # <<>>)
               => want[c] = Len(Head(expected[c]))

\* a HELLO was dispatched on connection c
HelloOn(c) ==
    /\ cres.ev = "dispatch"
    /\ cres.c = c
    /\ Deserialize(cres.line).type = "mHello"

\* C22 (as claimed): from every state in which a connection is open and has
\* a device, the connection is closed later on, unless a HELLO is dispatched
\* on that connection; whatever the other connections receive.
C22_SilentConnectionClosed ==
    \A c \in Conns :
        (stream[c] = "open" /\ conn_vbs[c] # NoVbs)
            ~> (stream[c] = "closed" \/ HelloOn(c))

====
